---- MODULE Spec2Model ----
(***************************************************************************)
(* A model of the image tag editor (dnrtk/tag_editor): the tag codec of    *)
(* tag_manager.rs, the directory navigation of image_viewer.rs, the timer  *)
(* of slideshow.rs and the session handlers of app.rs (InnerApp).          *)
(*                                                                         *)
(* Text is modelled character by character: a string is a tuple of         *)
(* characters, each a TLA+ string.  Four characters are special:           *)
(*   "NUL"  U+0000,            "W2"   a two-byte UTF-8 character,          *)
(*   "REPL" U+FFFD (3 bytes),  "BAD"  a byte that is not valid UTF-8       *)
(* ("BAD" only occurs in the raw bytes of a comment field).                *)
(***************************************************************************)
EXTENDS Integers, Sequences, FiniteSets, TLC

VARIABLES
    disk,           \* the file system: path -> [exists, comment]
    image_viewer,   \* InnerApp.image_viewer: [current_image, images_in_dir, current_index]
    current_tags,   \* InnerApp.current_tags
    tags_modified,  \* InnerApp.tags_modified
    config,         \* InnerApp.config: [auto_save, slideshow_loop]
    slideshow,      \* InnerApp.slideshow: [is_running, images, current_index, completed_once]
    elapsed,        \* seconds since slideshow.last_switch, saturating at the interval
    slideshow_dir,  \* InnerApp.slideshow_dir
    status_message, \* InnerApp.status_message (the kind of message)
    panicked,       \* the process has aborted on a panic
    last_op,        \* history: the handler that ran last, with its outcome
    tags_source,    \* history: the path whose load_tags produced current_tags
    baseline_tags,  \* history: current_tags as of the last load, open or successful save
    ss_hist,        \* history: what Slideshow::update returned on each advance since start
    ss_mode,        \* history: the loop flag of the advances since start
    ss_sets,        \* history: how often update has set completed_once since start
    cd_pc, cd_path, cd_tags, cd_out, \* the codec round trip: position, inputs, result
    cd_prefix, cd_payload,           \* a comment written by another tool: its two parts
    tg_orig, tg_tags, tg_tag, tg_n   \* toggle_tag called tg_n times on tg_orig with tg_tag

vars == <<disk, image_viewer, current_tags, tags_modified, config, slideshow,
          elapsed, slideshow_dir, status_message, panicked, last_op, tags_source,
          baseline_tags, ss_hist, ss_mode, ss_sets, cd_pc, cd_path, cd_tags, cd_out,
          cd_prefix, cd_payload, tg_orig, tg_tags, tg_tag, tg_n>>

\* Option<T>: None is the empty tuple, Some(x) the tuple of x alone.
None == <<>>
Some(x) == <<x>>

---------------------------------------------------------------------------
(* Text primitives of the Rust standard library, as tag_manager.rs uses them *)

\* The UTF-8 length of a character in bytes.
Width(c) == CASE c = "W2" -> 2 [] c = "REPL" -> 3 [] OTHER -> 1

RECURSIVE ByteLen(_)
ByteLen(s) == IF s = <<>> THEN 0 ELSE Width(Head(s)) + ByteLen(Tail(s))

\* String::from_utf8_lossy: an invalid byte becomes U+FFFD.
from_utf8_lossy(data) == [i \in 1..Len(data) |-> IF data[i] = "BAD" THEN "REPL" ELSE data[i]]

Whitespace == {" ", "\t", "\n"}

RECURSIVE TrimStart(_, _)
TrimStart(s, drop) ==
    IF s # <<>> /\ Head(s) \in drop THEN TrimStart(Tail(s), drop) ELSE s

RECURSIVE TrimEnd(_, _)
TrimEnd(s, drop) ==
    IF s # <<>> /\ s[Len(s)] \in drop THEN TrimEnd(SubSeq(s, 1, Len(s) - 1), drop) ELSE s

\* str::trim: strips leading and trailing whitespace.
trim(s) == TrimEnd(TrimStart(s, Whitespace), Whitespace)

\* str::trim_matches(char::from(0)): strips leading and trailing NULs only.
trim_matches_nul(s) == TrimEnd(TrimStart(s, {"NUL"}), {"NUL"})

starts_with(s, prefix) ==
    Len(s) >= Len(prefix) /\ SubSeq(s, 1, Len(prefix)) = prefix

\* &s[n..]: the suffix from byte offset n; panics when n is beyond the end or
\* inside a character.
\* Some(suffix), or None for the panic.
SliceFrom(s, n) ==
    LET cuts == {k \in 0..Len(s) : ByteLen(SubSeq(s, 1, k)) = n}
    IN  IF cuts = {} THEN None
        ELSE LET k == CHOOSE k \in cuts : TRUE IN Some(SubSeq(s, k + 1, Len(s)))

\* str::split(sep): the pieces between separators, empty pieces included.
RECURSIVE split(_, _)
split(s, sep) ==
    LET at == {i \in 1..Len(s) : s[i] = sep}
    IN  IF at = {} THEN <<s>>
        ELSE LET i == CHOOSE i \in at : \A j \in at : i <= j
             IN  <<SubSeq(s, 1, i - 1)>> \o split(SubSeq(s, i + 1, Len(s)), sep)

\* [String]::join(sep)
RECURSIVE join(_, _)
join(tags, sep) ==
    IF tags = <<>> THEN <<>>
    ELSE IF Len(tags) = 1 THEN tags[1]
    ELSE tags[1] \o <<sep>> \o join(Tail(tags), sep)

\* Iterator::filter(|s| !s.is_empty()) over a sequence of strings.
RECURSIVE FilterNonEmpty(_)
FilterNonEmpty(s) ==
    IF s = <<>> THEN <<>>
    ELSE IF Head(s) # <<>> THEN <<Head(s)>> \o FilterNonEmpty(Tail(s))
    ELSE FilterNonEmpty(Tail(s))

\* char::to_lowercase on the letters file extensions use.
ToLower(c) ==
    CASE c = "P" -> "p" [] c = "N" -> "n" [] c = "G" -> "g" [] c = "J" -> "j"
      [] c = "B" -> "b" [] c = "M" -> "m" [] c = "I" -> "i" [] c = "F" -> "f"
      [] OTHER -> c

to_lowercase(s) == [i \in 1..Len(s) |-> ToLower(s[i])]

Contains(s, x) == \E i \in 1..Len(s) : s[i] = x

---------------------------------------------------------------------------
(* Paths: [parent, stem, ext].  parent "" is the parent of a bare relative  *)
(* file name, which std::fs::read_dir cannot open; ext is empty when the    *)
(* file name has no extension.                                             *)

P_a == [parent |-> "d1", stem |-> <<"a">>, ext |-> <<"p", "n", "g">>]
P_b == [parent |-> "d1", stem |-> <<"b">>, ext |-> <<"J", "P", "G">>]
P_c == [parent |-> "d1", stem |-> <<"c">>, ext |-> <<"b", "m", "p">>]
P_n == [parent |-> "d1", stem |-> <<"n">>, ext |-> <<"t", "x", "t">>]
P_e == [parent |-> "",   stem |-> <<"e">>, ext |-> <<"g", "i", "f">>]

AllPaths == {P_a, P_b, P_c, P_n, P_e}

\* A file without extension, in a directory of its own.
P_x == [parent |-> "d2", stem |-> <<"x">>, ext |-> <<>>]
\* Every file of the file system.
DiskPaths == AllPaths \cup {P_x}

\* The file of P_b spelled in another letter case, as a path typed on the
\* command line can be.
P_B == [parent |-> "d1", stem |-> <<"B">>, ext |-> <<"j", "p", "g">>]

\* The file a path names.  The file system of the program's platform
\* (main.rs, line 1) ignores letter case when it looks a name up.
dir_entry(path) == IF path = P_B THEN P_b ELSE path

\* tag_manager::is_supported_format
is_supported_format(path) ==
    IF path.ext # <<>>
    THEN to_lowercase(path.ext) \in
            {<<"p","n","g">>, <<"j","p","g">>, <<"j","p","e","g">>, <<"w","e","b","p">>}
    ELSE FALSE

\* tag_manager::is_image_file
is_image_file(path) ==
    IF path.ext # <<>>
    THEN to_lowercase(path.ext) \in
            {<<"p","n","g">>, <<"j","p","g">>, <<"j","p","e","g">>, <<"g","i","f">>,
             <<"w","e","b","p">>, <<"b","m","p">>}
    ELSE FALSE

---------------------------------------------------------------------------
(* The file system.  disk[p] = [exists, comment]; comment is the raw bytes  *)
(* of the Exif UserComment field, None when the file carries none.         *)

\* Path::exists
exists(d, path) == d[dir_entry(path)].exists

\* std::fs::read_dir(dir), filtered by is_image_file: Some(set of paths), or
\* None when the directory cannot be read.
read_dir_images(d, dir) ==
    IF dir = "" THEN None
    ELSE Some({p \in DiskPaths : p.parent = dir /\ d[p].exists /\ is_image_file(p)})

\* The byte value of a character of a file name.
Code(c) ==
    CASE c = "." -> 46 [] c = "G" -> 71 [] c = "J" -> 74 [] c = "P" -> 80
      [] c = "a" -> 97 [] c = "b" -> 98 [] c = "c" -> 99 [] c = "e" -> 101
      [] c = "f" -> 102 [] c = "g" -> 103 [] c = "i" -> 105 [] c = "m" -> 109
      [] c = "n" -> 110 [] c = "p" -> 112 [] c = "t" -> 116 [] c = "x" -> 120

file_name(path) == IF path.ext = <<>> THEN path.stem ELSE path.stem \o <<".">> \o path.ext

RECURSIVE StrLess(_, _)
StrLess(s, t) ==
    IF t = <<>> THEN FALSE
    ELSE IF s = <<>> THEN TRUE
    ELSE IF Code(Head(s)) # Code(Head(t)) THEN Code(Head(s)) < Code(Head(t))
    ELSE StrLess(Tail(s), Tail(t))

\* PathBuf's Ord within one directory: by the bytes of the file name.
PathLess(p, q) == StrLess(file_name(p), file_name(q))

\* Vec::sort of a set of distinct paths.
RECURSIVE SortPaths(_)
SortPaths(S) ==
    IF S = {} THEN <<>>
    ELSE LET m == CHOOSE m \in S : \A q \in S \ {m} : PathLess(m, q)
         IN  <<m>> \o SortPaths(S \ {m})

\* Vec::iter().position(|p| p == x), zero-based: Some(index) or None.
position(seq, x) ==
    LET at == {i \in 1..Len(seq) : seq[i] = x}
    IN  IF at = {} THEN None ELSE Some((CHOOSE i \in at : \A j \in at : i <= j) - 1)

\* Vec::remove(pos), zero-based.
remove_at(seq, pos) == SubSeq(seq, 1, pos) \o SubSeq(seq, pos + 2, Len(seq))

---------------------------------------------------------------------------
(* tag_manager.rs                                                          *)

\* Iterator::map(|s| s.trim().to_string())
map_trim(pieces) == [i \in 1..Len(pieces) |-> trim(pieces[i])]

\* load_tags, lines 25-44: the tags of a UserComment's bytes.
\* [panic |-> TRUE] when the slice &content[8..] panics.
decode_comment(data) ==
    LET s == from_utf8_lossy(data)
        content == trim(s)
        sliced == IF starts_with(content, <<"A","S","C","I","I">>)
                  THEN SliceFrom(content, 8)
                  ELSE IF starts_with(content, <<"U","N","I","C","O","D","E">>)
                  THEN SliceFrom(content, 8)
                  ELSE Some(content)
    IN  IF sliced = None THEN [panic |-> TRUE, tags |-> <<>>]
        ELSE [panic |-> FALSE,
              tags |-> FilterNonEmpty(map_trim(split(trim_matches_nul(sliced[1]), ";")))]

\* load_tags as it would be if it did not look at the format first.
load_tags_any_format(d, image_path) ==
    IF ~d[dir_entry(image_path)].exists THEN [panic |-> FALSE, tags |-> <<>>]
    ELSE IF d[dir_entry(image_path)].comment = None THEN [panic |-> FALSE, tags |-> <<>>]
    ELSE decode_comment(d[dir_entry(image_path)].comment[1])

\* load_tags(image_path) on the file system d.
load_tags(d, image_path) ==
    IF ~is_supported_format(image_path) THEN [panic |-> FALSE, tags |-> <<>>]
    ELSE IF ~d[dir_entry(image_path)].exists THEN [panic |-> FALSE, tags |-> <<>>]
    ELSE IF d[dir_entry(image_path)].comment = None THEN [panic |-> FALSE, tags |-> <<>>]
    ELSE decode_comment(d[dir_entry(image_path)].comment[1])

\* save_tags(image_path, tags): [ok, disk].  io_ok is whether write_to_file
\* can write the file (it cannot when the file is missing).
save_tags(d, image_path, tags, io_ok) ==
    IF ~is_supported_format(image_path) THEN [ok |-> FALSE, disk |-> d]
    ELSE IF ~d[dir_entry(image_path)].exists \/ ~io_ok THEN [ok |-> FALSE, disk |-> d]
    ELSE [ok |-> TRUE,
          disk |-> [d EXCEPT ![dir_entry(image_path)].comment = Some(join(tags, ";"))]]

\* add_tag
add_tag(tags, tag) ==
    LET t == trim(tag)
    IN  IF t # <<>> /\ ~Contains(tags, t) THEN Append(tags, t) ELSE tags

\* remove_tag: Vec::retain(|t| t != tag)
RECURSIVE remove_tag(_, _)
remove_tag(tags, tag) ==
    IF tags = <<>> THEN <<>>
    ELSE IF Head(tags) # tag THEN <<Head(tags)>> \o remove_tag(Tail(tags), tag)
    ELSE remove_tag(Tail(tags), tag)

\* toggle_tag
toggle_tag(tags, tag) ==
    LET t == trim(tag)
    IN  IF Contains(tags, t) THEN remove_tag(tags, t) ELSE add_tag(tags, t)

\* find_images_with_tag(dir, tag): [panic, images]
find_images_with_tag(d, dir, tag) ==
    LET listing == IF dir = "" THEN {}
                   ELSE {p \in DiskPaths : p.parent = dir /\ d[p].exists}
        cands == {p \in listing : is_supported_format(p)}
    IN  [panic |-> \E p \in cands : load_tags(d, p).panic,
         images |-> SortPaths({p \in cands : Contains(load_tags(d, p).tags, tag)})]

---------------------------------------------------------------------------
(* image_viewer.rs: ImageViewer, a record                                  *)
(*   [current_image, images_in_dir, current_index]                         *)

ImageViewer_default == [current_image |-> None, images_in_dir |-> <<>>, current_index |-> 0]

\* ImageViewer::close
ImageViewer_close(v) == [v EXCEPT !.current_image = None, !.current_index = 0]

\* ImageViewer::load_directory_images: the new images_in_dir
load_directory_images(d, dir) ==
    LET entries == read_dir_images(d, dir)
    IN  IF entries = None THEN <<>> ELSE SortPaths(entries[1])

\* ImageViewer::open
ImageViewer_open(v, d, path) ==
    IF ~exists(d, path) \/ ~is_image_file(path) THEN v
    ELSE LET images == load_directory_images(d, path.parent)
             pos == position(images, path)
         IN  [current_image |-> Some(path),
              images_in_dir |-> images,
              current_index |-> IF pos = None THEN 0 ELSE pos[1]]

\* Vec::get(index), zero-based: Some(element) or None.
get(seq, index) == IF index < Len(seq) THEN Some(seq[index + 1]) ELSE None

\* The tail shared by prev, next and goto: show the image at current_index.
show_current(v) ==
    LET path == get(v.images_in_dir, v.current_index)
    IN  IF path # None THEN [v EXCEPT !.current_image = path] ELSE v

\* ImageViewer::prev
ImageViewer_prev(v) ==
    IF v.images_in_dir = <<>> THEN v
    ELSE show_current([v EXCEPT !.current_index =
                          IF v.current_index > 0 THEN v.current_index - 1
                          ELSE Len(v.images_in_dir) - 1])

\* ImageViewer::next as it would be without the wrap-around: it stops at the
\* last image.
ImageViewer_next_clamped(v) ==
    IF v.images_in_dir = <<>> THEN v
    ELSE show_current([v EXCEPT !.current_index =
                          IF v.current_index + 1 < Len(v.images_in_dir)
                          THEN v.current_index + 1 ELSE v.current_index])

\* ImageViewer::next
ImageViewer_next(v) ==
    IF v.images_in_dir = <<>> THEN v
    ELSE show_current([v EXCEPT !.current_index =
                          (v.current_index + 1) % Len(v.images_in_dir)])

\* ImageViewer::goto
ImageViewer_goto(v, index) ==
    IF index < Len(v.images_in_dir)
    THEN show_current([v EXCEPT !.current_index = index])
    ELSE v

---------------------------------------------------------------------------
(* slideshow.rs: Slideshow, a record                                       *)
(*   [is_running, images, current_index, completed_once]                   *)
(* last_switch is kept as `elapsed`, the whole seconds since it.           *)

\* config.slideshow_interval, in seconds (the settings allow 0.5 to 60).
SlideshowInterval == 1

Slideshow_default ==
    [is_running |-> FALSE, images |-> <<>>, current_index |-> 0, completed_once |-> FALSE]

\* Slideshow::start (it also sets last_switch to now)
Slideshow_start(images) ==
    [is_running |-> images # <<>>, images |-> images, current_index |-> 0,
     completed_once |-> FALSE]

\* Slideshow::stop as it would be if it reset the slideshow entirely.
Slideshow_stop_resets(s) == [s EXCEPT !.is_running = FALSE, !.completed_once = FALSE]

\* Slideshow::stop
Slideshow_stop(s) == [s EXCEPT !.is_running = FALSE]

\* Slideshow::update as it would be if the end of a pass without loop did not
\* stop the slideshow.
Slideshow_update_keeps_running(s, el, interval, should_loop) ==
    IF ~s.is_running \/ s.images = <<>>
    THEN [s |-> s, ret |-> None, switched |-> FALSE, set_completed |-> FALSE]
    ELSE IF el >= interval
    THEN LET idx == s.current_index + 1
         IN  IF idx >= Len(s.images)
             THEN IF should_loop
                  THEN [s |-> [s EXCEPT !.current_index = 0, !.completed_once = TRUE],
                        ret |-> get(s.images, 0), switched |-> TRUE, set_completed |-> TRUE]
                  ELSE [s |-> [s EXCEPT !.current_index = idx, !.completed_once = TRUE],
                        ret |-> None, switched |-> TRUE, set_completed |-> TRUE]
             ELSE [s |-> [s EXCEPT !.current_index = idx],
                   ret |-> get(s.images, idx), switched |-> TRUE, set_completed |-> FALSE]
    ELSE [s |-> s, ret |-> None, switched |-> FALSE, set_completed |-> FALSE]

\* Slideshow::update as it would be if a looping pass wrapped to the image
\* after the first.
Slideshow_update_wraps_to_second(s, el, interval, should_loop) ==
    IF ~s.is_running \/ s.images = <<>>
    THEN [s |-> s, ret |-> None, switched |-> FALSE, set_completed |-> FALSE]
    ELSE IF el >= interval
    THEN LET idx == s.current_index + 1
         IN  IF idx >= Len(s.images)
             THEN IF should_loop
                  THEN LET w == IF Len(s.images) > 1 THEN 1 ELSE 0
                       IN  [s |-> [s EXCEPT !.current_index = w, !.completed_once = TRUE],
                            ret |-> get(s.images, w), switched |-> TRUE,
                            set_completed |-> TRUE]
                  ELSE [s |-> [s EXCEPT !.current_index = idx, !.completed_once = TRUE,
                                        !.is_running = FALSE],
                        ret |-> None, switched |-> TRUE, set_completed |-> TRUE]
             ELSE [s |-> [s EXCEPT !.current_index = idx],
                   ret |-> get(s.images, idx), switched |-> TRUE, set_completed |-> FALSE]
    ELSE [s |-> s, ret |-> None, switched |-> FALSE, set_completed |-> FALSE]

\* Slideshow::update as it would be if it advanced on every call of a running
\* slideshow, whatever time had elapsed.
Slideshow_update_ignores_interval(s, el, interval, should_loop) ==
    IF ~s.is_running \/ s.images = <<>>
    THEN [s |-> s, ret |-> None, switched |-> FALSE, set_completed |-> FALSE]
    ELSE LET idx == s.current_index + 1
         IN  IF idx >= Len(s.images)
             THEN IF should_loop
                  THEN [s |-> [s EXCEPT !.current_index = 0, !.completed_once = TRUE],
                        ret |-> get(s.images, 0), switched |-> TRUE, set_completed |-> TRUE]
                  ELSE [s |-> [s EXCEPT !.current_index = idx, !.completed_once = TRUE,
                                        !.is_running = FALSE],
                        ret |-> None, switched |-> TRUE, set_completed |-> TRUE]
             ELSE [s |-> [s EXCEPT !.current_index = idx],
                   ret |-> get(s.images, idx), switched |-> TRUE, set_completed |-> FALSE]

\* Slideshow::update(interval, should_loop) with `el` seconds elapsed:
\* [s: the slideshow after the call, ret: the Option returned,
\*  switched: whether last_switch was set to now,
\*  set_completed: whether completed_once was assigned]
Slideshow_update(s, el, interval, should_loop) ==
    IF ~s.is_running \/ s.images = <<>>
    THEN [s |-> s, ret |-> None, switched |-> FALSE, set_completed |-> FALSE]
    ELSE IF el >= interval
    THEN LET idx == s.current_index + 1
         IN  IF idx >= Len(s.images)
             THEN IF should_loop
                  THEN [s |-> [s EXCEPT !.current_index = 0, !.completed_once = TRUE],
                        ret |-> get(s.images, 0), switched |-> TRUE, set_completed |-> TRUE]
                  ELSE [s |-> [s EXCEPT !.current_index = idx, !.completed_once = TRUE,
                                        !.is_running = FALSE],
                        ret |-> None, switched |-> TRUE, set_completed |-> TRUE]
             ELSE [s |-> [s EXCEPT !.current_index = idx],
                   ret |-> get(s.images, idx), switched |-> TRUE, set_completed |-> FALSE]
    ELSE [s |-> s, ret |-> None, switched |-> FALSE, set_completed |-> FALSE]

\* Slideshow::current_image
Slideshow_current_image(s) == get(s.images, s.current_index)

---------------------------------------------------------------------------
(* app.rs: InnerApp.  A handler is an operator on the session record       *)
(*   a = [iv, tags, modified, status, disk, panic, src, base]              *)
(* (image_viewer, current_tags, tags_modified, status_message, the file    *)
(* system, whether the handler panicked, and the two history values).      *)

Session ==
    [iv |-> image_viewer, tags |-> current_tags, modified |-> tags_modified,
     status |-> status_message, disk |-> disk, panic |-> FALSE,
     src |-> tags_source, base |-> baseline_tags]

\* InnerApp::open_image
app_open_image(a, path) ==
    LET v == ImageViewer_open(a.iv, a.disk, path)
        r == load_tags(a.disk, path)
    IN  IF r.panic THEN [a EXCEPT !.iv = v, !.panic = TRUE]
        ELSE [a EXCEPT !.iv = v, !.tags = r.tags, !.modified = FALSE,
                       !.status = "Opened", !.src = Some(path), !.base = r.tags]

\* InnerApp::save_tags as it would be if a failed save also cleared the flag.
app_save_tags_clears_on_error(a, io_ok) ==
    IF a.iv.current_image = None THEN a
    ELSE LET r == save_tags(a.disk, a.iv.current_image[1], a.tags, io_ok)
         IN  IF ~r.ok THEN [a EXCEPT !.status = "Error saving tags", !.modified = FALSE]
             ELSE [a EXCEPT !.disk = r.disk, !.modified = FALSE,
                            !.status = "Tags saved", !.base = a.tags]

\* InnerApp::save_tags; io_ok: whether the file can be written this time
app_save_tags(a, io_ok) ==
    IF a.iv.current_image = None THEN a
    ELSE LET r == save_tags(a.disk, a.iv.current_image[1], a.tags, io_ok)
         IN  IF ~r.ok THEN [a EXCEPT !.status = "Error saving tags"]
             ELSE [a EXCEPT !.disk = r.disk, !.modified = FALSE,
                            !.status = "Tags saved", !.base = a.tags]

\* `if self.config.auto_save { self.save_tags(); }`
app_auto_save(a, auto_save, io_ok) == IF auto_save THEN app_save_tags(a, io_ok) ELSE a

\* handle_keyboard, the hotkey branch (lines 220-232)
app_hotkey_toggle(a, tag, auto_save, io_ok) ==
    app_auto_save([a EXCEPT !.tags = toggle_tag(a.tags, tag), !.modified = TRUE],
                  auto_save, io_ok)

\* show_right_sidebar, the remove button (lines 360-366)
app_remove_tag(a, tag, auto_save, io_ok) ==
    app_auto_save([a EXCEPT !.tags = remove_tag(a.tags, tag), !.modified = TRUE],
                  auto_save, io_ok)

\* show_right_sidebar, the Add field (lines 372-387)
app_add_tag(a, new_tag_input, auto_save, io_ok) ==
    IF new_tag_input = <<>> THEN a
    ELSE app_auto_save([a EXCEPT !.tags = add_tag(a.tags, new_tag_input),
                                 !.modified = TRUE],
                       auto_save, io_ok)

\* The reload after ImageViewer::prev / next (lines 241-244, 252-255)
app_reload(a) ==
    IF a.iv.current_image = None THEN a
    ELSE LET path == a.iv.current_image[1]
             r == load_tags(a.disk, path)
         IN  IF r.panic THEN [a EXCEPT !.panic = TRUE]
             ELSE [a EXCEPT !.tags = r.tags, !.modified = FALSE,
                            !.src = Some(path), !.base = r.tags]

\* InnerApp::navigate_prev
app_navigate_prev(a, auto_save, io_ok) ==
    LET a1 == IF a.modified /\ auto_save THEN app_save_tags(a, io_ok) ELSE a
    IN  app_reload([a1 EXCEPT !.iv = ImageViewer_prev(a1.iv)])

\* InnerApp::navigate_next as it would be if the auto-save came after the move.
app_navigate_next_saves_after_move(a, auto_save, io_ok) ==
    LET a1 == [a EXCEPT !.iv = ImageViewer_next(a.iv)]
        a2 == IF a.modified /\ auto_save THEN app_save_tags(a1, io_ok) ELSE a1
    IN  app_reload(a2)

\* InnerApp::navigate_next
app_navigate_next(a, auto_save, io_ok) ==
    LET a1 == IF a.modified /\ auto_save THEN app_save_tags(a, io_ok) ELSE a
    IN  app_reload([a1 EXCEPT !.iv = ImageViewer_next(a1.iv)])

\* trash::delete(path) that succeeds: the file is gone.
trash_delete(d, path) ==
    [d EXCEPT ![dir_entry(path)] = [exists |-> FALSE, comment |-> None]]

\* remove_and_pick as it would be if it always stepped back to the previous
\* index.
remove_and_pick_previous(images_in_dir, path) ==
    LET pos == position(images_in_dir, path)
    IN  IF pos = None THEN [images |-> images_in_dir, next_path |-> None]
        ELSE LET images == remove_at(images_in_dir, pos[1])
             IN  [images |-> images,
                  next_path |-> IF images # <<>>
                                THEN get(images, IF pos[1] >= 1 THEN pos[1] - 1 ELSE 0)
                                ELSE None]

\* delete_current_image, lines 268-281: [images: images_in_dir after the
\* removal, next_path: the image to show next]
remove_and_pick(images_in_dir, path) ==
    LET pos == position(images_in_dir, path)
    IN  IF pos = None THEN [images |-> images_in_dir, next_path |-> None]
        ELSE LET images == remove_at(images_in_dir, pos[1])
             IN  [images |-> images,
                  next_path |-> IF images # <<>>
                                THEN get(images, IF pos[1] < Len(images) THEN pos[1]
                                                 ELSE pos[1] - 1)
                                ELSE None]

\* delete_current_image, lines 283-293: show next_path or close, then clear.
app_after_delete(a, next_path) ==
    LET a2 == IF next_path # None THEN app_open_image(a, next_path[1])
              ELSE [a EXCEPT !.iv = ImageViewer_close(a.iv)]
    IN  IF a2.panic THEN a2
        ELSE [a2 EXCEPT !.tags = <<>>, !.modified = FALSE, !.src = None]

\* delete_current_image as it would be without the `return` after a failed
\* trash::delete.
app_delete_current_image_no_return(a, trash_ok) ==
    IF a.iv.current_image = None THEN a
    ELSE LET path == a.iv.current_image[1]
             ok == trash_ok /\ exists(a.disk, path)
             r == remove_and_pick(a.iv.images_in_dir, path)
         IN  app_after_delete(
                 [a EXCEPT !.disk = IF ok THEN trash_delete(a.disk, path) ELSE a.disk,
                           !.status = IF ok THEN "Moved to trash"
                                      ELSE "Error deleting file",
                           !.iv.images_in_dir = r.images],
                 r.next_path)

\* InnerApp::delete_current_image; trash_ok: whether trash::delete can move
\* the file this time (it cannot when the file is missing)
app_delete_current_image(a, trash_ok) ==
    IF a.iv.current_image = None THEN a
    ELSE LET path == a.iv.current_image[1]
         IN  IF ~(trash_ok /\ exists(a.disk, path))
             THEN [a EXCEPT !.status = "Error deleting file"]
             ELSE LET r == remove_and_pick(a.iv.images_in_dir, path)
                  IN  app_after_delete(
                          [a EXCEPT !.disk = trash_delete(a.disk, path),
                                    !.status = "Moved to trash",
                                    !.iv.images_in_dir = r.images],
                          r.next_path)

---------------------------------------------------------------------------
(* The session: what the user and the frame loop can do                    *)

\* The directories the user can point the application at.
Dirs == {"d1", "d2"}
\* What the user types into the Add field.
AddInputs == {<<" ", "a">>, <<" ">>}
\* The tags of config.hotkey_tags.
HotkeyTags == {<<"a">>}
\* What the user types into the slideshow dialog's "Filter by tag" field.
SlideshowTags == {<<>>, <<"b">>}

histVars == <<ss_hist, ss_mode, ss_sets>>
tagopVars == <<tg_orig, tg_tags, tg_tag, tg_n>>
codecVars == <<cd_pc, cd_path, cd_tags, cd_out, cd_prefix, cd_payload, tagopVars>>

\* The disk at start-up: a.png carries no comment, b.JPG one written by
\* another tool with the legacy prefix.
InitDisk ==
    [p \in DiskPaths |->
        [exists |-> TRUE,
         comment |-> IF p = P_b THEN Some(<<"A","S","C","I","I","NUL","NUL","NUL","b">>)
                     ELSE None]]

\* TagEditorApp::new
Init ==
    /\ disk = InitDisk
    /\ image_viewer = ImageViewer_default
    /\ current_tags = <<>>
    /\ tags_modified = FALSE
    /\ config = [auto_save |-> FALSE, slideshow_loop |-> TRUE]
    /\ slideshow = Slideshow_default
    /\ elapsed = 0
    /\ slideshow_dir = None
    /\ status_message = ""
    /\ panicked = FALSE
    /\ last_op = "init"
    /\ tags_source = None
    /\ baseline_tags = <<>>
    /\ ss_hist = <<>>
    /\ ss_mode = "none"
    /\ ss_sets = 0
    /\ cd_pc = "idle"
    /\ cd_path = P_a
    /\ cd_tags = <<>>
    /\ cd_out = [panic |-> FALSE, tags |-> <<>>]
    /\ cd_prefix = <<>>
    /\ cd_payload = <<>>
    /\ tg_orig = <<>>
    /\ tg_tags = <<>>
    /\ tg_tag = <<"a">>
    /\ tg_n = 0

\* The handler's result a becomes the state; op names the handler for last_op.
Commit(a, op) ==
    /\ image_viewer' = a.iv
    /\ current_tags' = a.tags
    /\ tags_modified' = a.modified
    /\ status_message' = a.status
    /\ disk' = a.disk
    /\ panicked' = a.panic
    /\ tags_source' = a.src
    /\ baseline_tags' = a.base
    /\ last_op' = op

\* Open Image..., or a click on a node of the file tree (whose nodes are not
\* refreshed when a file is deleted)
OpenImage(path) ==
    /\ ~panicked
    /\ Commit(app_open_image(Session, path), "open")
    /\ UNCHANGED <<config, slideshow, elapsed, slideshow_dir, histVars, codecVars>>

\* handle_dropped_files with an image file (and a file given at start-up)
DropFile(path) ==
    /\ ~panicked
    /\ exists(disk, path) /\ is_image_file(path)
    /\ Commit(app_open_image(Session, path), "open")
    /\ slideshow_dir' = Some(path.parent)
    /\ UNCHANGED <<config, slideshow, elapsed, histVars, codecVars>>

\* Open Folder..., or handle_dropped_files with a directory
OpenFolder(dir) ==
    /\ ~panicked
    /\ slideshow_dir' = Some(dir)
    /\ last_op' = "folder"
    /\ UNCHANGED <<disk, image_viewer, current_tags, tags_modified, config, slideshow,
                   elapsed, status_message, panicked, tags_source, baseline_tags,
                   histVars, codecVars>>

\* Ctrl+S, the Save button, Save Tags in the menu
SaveTags ==
    /\ ~panicked
    /\ \E io_ok \in BOOLEAN :
         LET a == app_save_tags(Session, io_ok)
         IN  Commit(a, IF image_viewer.current_image = None THEN "save_none"
                       ELSE IF a.status = "Tags saved" THEN "save_ok" ELSE "save_err")
    /\ UNCHANGED <<config, slideshow, elapsed, slideshow_dir, histVars, codecVars>>

HotkeyToggle(tag) ==
    /\ ~panicked
    /\ \E io_ok \in BOOLEAN :
         Commit(app_hotkey_toggle(Session, tag, config.auto_save, io_ok), "toggle")
    /\ UNCHANGED <<config, slideshow, elapsed, slideshow_dir, histVars, codecVars>>

RemoveTag(tag) ==
    /\ ~panicked
    /\ Contains(current_tags, tag)
    /\ \E io_ok \in BOOLEAN :
         Commit(app_remove_tag(Session, tag, config.auto_save, io_ok), "remove")
    /\ UNCHANGED <<config, slideshow, elapsed, slideshow_dir, histVars, codecVars>>

AddTag(new_tag_input) ==
    /\ ~panicked
    /\ \E io_ok \in BOOLEAN :
         Commit(app_add_tag(Session, new_tag_input, config.auto_save, io_ok), "add")
    /\ UNCHANGED <<config, slideshow, elapsed, slideshow_dir, histVars, codecVars>>

NavigatePrev ==
    /\ ~panicked
    /\ \E io_ok \in BOOLEAN :
         Commit(app_navigate_prev(Session, config.auto_save, io_ok), "prev")
    /\ UNCHANGED <<config, slideshow, elapsed, slideshow_dir, histVars, codecVars>>

NavigateNext ==
    /\ ~panicked
    /\ \E io_ok \in BOOLEAN :
         Commit(app_navigate_next(Session, config.auto_save, io_ok), "next")
    /\ UNCHANGED <<config, slideshow, elapsed, slideshow_dir, histVars, codecVars>>

DeleteCurrentImage ==
    /\ ~panicked
    /\ \E trash_ok \in BOOLEAN :
         LET a == app_delete_current_image(Session, trash_ok)
         IN  Commit(a, IF image_viewer.current_image = None THEN "delete_none"
                       ELSE IF a.disk # disk THEN "delete_ok" ELSE "delete_err")
    /\ UNCHANGED <<config, slideshow, elapsed, slideshow_dir, histVars, codecVars>>

\* The "Auto-save on hotkey" checkbox
ToggleAutoSave ==
    /\ ~panicked
    /\ config' = [config EXCEPT !.auto_save = ~config.auto_save]
    /\ last_op' = "config"
    /\ UNCHANGED <<disk, image_viewer, current_tags, tags_modified, slideshow, elapsed,
                   slideshow_dir, status_message, panicked, tags_source, baseline_tags,
                   histVars, codecVars>>

\* The "Loop slideshow" checkbox
ToggleLoop ==
    /\ ~panicked
    /\ config' = [config EXCEPT !.slideshow_loop = ~config.slideshow_loop]
    /\ last_op' = "config"
    /\ UNCHANGED <<disk, image_viewer, current_tags, tags_modified, slideshow, elapsed,
                   slideshow_dir, status_message, panicked, tags_source, baseline_tags,
                   histVars, codecVars>>

\* show_slideshow_dialog, the Start button (lines 657-678)
StartSlideshow(slideshow_tag) ==
    /\ ~panicked
    /\ slideshow_dir # None
    /\ LET found == find_images_with_tag(disk, slideshow_dir[1], slideshow_tag)
           images == IF slideshow_tag = <<>> THEN image_viewer.images_in_dir
                     ELSE found.images
       IN  IF slideshow_tag # <<>> /\ found.panic
           THEN /\ Commit([Session EXCEPT !.panic = TRUE], "start")
                /\ UNCHANGED <<slideshow, elapsed>>
           ELSE IF images # <<>>
           THEN LET s == Slideshow_start(images)
                    path == Slideshow_current_image(s)
                    a == IF path # None THEN app_open_image(Session, path[1]) ELSE Session
                IN  /\ slideshow' = s
                    /\ elapsed' = 0
                    /\ Commit(IF a.panic THEN a
                              ELSE [a EXCEPT !.status = "Slideshow started"], "start")
           ELSE /\ Commit([Session EXCEPT !.status = "No images found for slideshow"],
                          "start")
                /\ UNCHANGED <<slideshow, elapsed>>
    /\ UNCHANGED <<config, slideshow_dir, histVars, codecVars>>

\* Stop Slideshow in the menu (lines 598-603)
StopSlideshow ==
    /\ ~panicked
    /\ slideshow.is_running
    /\ slideshow' = Slideshow_stop(slideshow)
    /\ last_op' = "stop"
    /\ UNCHANGED <<disk, image_viewer, current_tags, tags_modified, config, elapsed,
                   slideshow_dir, status_message, panicked, tags_source, baseline_tags,
                   histVars, codecVars>>

\* InnerApp::update_slideshow, once per frame
UpdateSlideshow ==
    /\ ~panicked
    /\ LET r == Slideshow_update(slideshow, elapsed, SlideshowInterval,
                                 config.slideshow_loop)
           a == IF r.ret # None THEN app_open_image(Session, r.ret[1]) ELSE Session
           done == ~r.s.is_running /\ r.s.completed_once
       IN  /\ elapsed' = IF r.switched THEN 0 ELSE elapsed
           /\ IF a.panic
              THEN /\ slideshow' = r.s
                   /\ Commit(a, "update")
              ELSE /\ slideshow' = IF done THEN [r.s EXCEPT !.completed_once = FALSE]
                                   ELSE r.s
                   /\ Commit(IF done THEN [a EXCEPT !.status = "Slideshow completed"]
                             ELSE a, "update")
    /\ UNCHANGED <<config, slideshow_dir, histVars, codecVars>>

\* A second passes.
Tick ==
    /\ ~panicked
    /\ elapsed < SlideshowInterval
    /\ elapsed' = elapsed + 1
    /\ last_op' = "tick"
    /\ UNCHANGED <<disk, image_viewer, current_tags, tags_modified, config, slideshow,
                   slideshow_dir, status_message, panicked, tags_source, baseline_tags,
                   histVars, codecVars>>

\* The tag session: opening, editing, saving, navigating and deleting.
Next ==
    \/ \E path \in AllPaths : OpenImage(path)
    \/ SaveTags
    \/ \E tag \in HotkeyTags : HotkeyToggle(tag)
    \/ \E tag \in {current_tags[i] : i \in 1..Len(current_tags)} : RemoveTag(tag)
    \/ \E input \in AddInputs : AddTag(input)
    \/ NavigatePrev
    \/ NavigateNext
    \/ DeleteCurrentImage
    \/ ToggleAutoSave

Spec == Init /\ [][Next]_vars

\* The host of the slideshow: the frame loop polling the timer, with the
\* opens and deletes that change what its snapshot points at.
NextShow ==
    \/ \E path \in AllPaths : DropFile(path)
    \/ \E dir \in Dirs : OpenFolder(dir)
    \/ DeleteCurrentImage
    \/ ToggleLoop
    \/ \E tag \in SlideshowTags : StartSlideshow(tag)
    \/ StopSlideshow
    \/ UpdateSlideshow
    \/ Tick

SpecShow == Init /\ [][NextShow]_vars

\* The slideshow as the user drives it: an image is dropped, the slideshow is
\* started and stopped from the menu, the loop setting is changed, and every
\* frame polls the timer.
NextHost ==
    \/ \E path \in AllPaths : DropFile(path)
    \/ ToggleLoop
    \/ \E tag \in SlideshowTags : StartSlideshow(tag)
    \/ StopSlideshow
    \/ UpdateSlideshow
    \/ Tick

SpecHost == Init /\ [][NextHost]_vars

---------------------------------------------------------------------------
(* Pointing the application at files and folders, and moving through the   *)
(* images of the viewer.                                                   *)

NextFolder ==
    \/ \E path \in AllPaths : DropFile(path)
    \/ \E dir \in Dirs : OpenFolder(dir)
    \/ NavigatePrev
    \/ NavigateNext
    \/ DeleteCurrentImage

SpecFolder == Init /\ [][NextFolder]_vars

\* The paths the viewer is asked to open: the images of d1, and one of them
\* under its other spelling.
ViewerPaths == {P_a, P_b, P_c, P_B}

\* ImageViewer::goto (no handler of the application calls it)
Goto(index) ==
    /\ ~panicked
    /\ image_viewer' = ImageViewer_goto(image_viewer, index)
    /\ last_op' = "goto"
    /\ UNCHANGED <<disk, current_tags, tags_modified, config, slideshow, elapsed,
                   slideshow_dir, status_message, panicked, tags_source, baseline_tags,
                   histVars, codecVars>>

\* The viewer: open, next, prev, goto and the deletion of the current image.
NextViewer ==
    \/ \E path \in ViewerPaths : OpenImage(path)
    \/ NavigatePrev
    \/ NavigateNext
    \/ \E index \in 0..Cardinality(ViewerPaths) : Goto(index)
    \/ DeleteCurrentImage

SpecViewer == Init /\ [][NextViewer]_vars

---------------------------------------------------------------------------
(* Editing the tags of one image: typing into the Add field, the hotkey,   *)
(* the remove buttons, saving and opening again.                           *)

\* The longest tag list the Add field is used on.
MaxTags == 3

\* What the user types into the Add field while editing.
EditInputs == {<<"a", ";", "a">>, <<"b">>}
\* The images the user opens while editing.
EditPaths == {P_a}

EditAdd(new_tag_input) ==
    /\ Len(current_tags) < MaxTags
    /\ AddTag(new_tag_input)

NextEdit ==
    \/ \E path \in EditPaths : OpenImage(path)
    \/ SaveTags
    \/ \E tag \in HotkeyTags : HotkeyToggle(tag)
    \/ \E tag \in {current_tags[i] : i \in 1..Len(current_tags)} : RemoveTag(tag)
    \/ \E input \in EditInputs : EditAdd(input)

SpecEdit == Init /\ [][NextEdit]_vars

---------------------------------------------------------------------------
(* The timer on its own: Slideshow's methods called directly, with the     *)
(* history of what update returned on each call made once the interval     *)
(* had elapsed.                                                            *)

\* The longest snapshot a slideshow is started with.
MaxImages == 3
\* The most calls of update, with the interval elapsed, after one start.
MaxTicks == 7

ImagePaths == {p \in AllPaths : is_image_file(p)}

\* The vectors of distinct image paths of length 0..MaxImages.
Snapshots ==
    {q \in UNION {[1..n -> ImagePaths] : n \in 0..MaxImages} :
        \A i, j \in 1..Len(q) : i # j => q[i] # q[j]}

SlideshowStart(images) ==
    /\ slideshow' = Slideshow_start(images)
    /\ elapsed' = 0
    /\ ss_hist' = <<>>
    /\ ss_mode' = "none"
    /\ ss_sets' = 0
    /\ last_op' = "start"
    /\ UNCHANGED <<disk, image_viewer, current_tags, tags_modified, config,
                   slideshow_dir, status_message, panicked, tags_source, baseline_tags,
                   codecVars>>

SlideshowStop ==
    /\ slideshow' = Slideshow_stop(slideshow)
    /\ ss_mode' = "stopped"
    /\ last_op' = "stop"
    /\ UNCHANGED <<disk, image_viewer, current_tags, tags_modified, config, elapsed,
                   slideshow_dir, status_message, panicked, tags_source, baseline_tags,
                   ss_hist, ss_sets, codecVars>>

\* ss_mode after a call with the interval elapsed and this loop flag.
NextMode(mode, should_loop) ==
    LET m == IF should_loop THEN "loop" ELSE "noloop"
    IN  IF mode = "none" \/ mode = m THEN m
        ELSE IF mode = "stopped" THEN "stopped" ELSE "mixed"

SlideshowUpdate(should_loop) ==
    /\ Len(ss_hist) < MaxTicks
    /\ LET r == Slideshow_update(slideshow, elapsed, SlideshowInterval, should_loop)
           due == elapsed >= SlideshowInterval
       IN  /\ slideshow' = r.s
           /\ elapsed' = IF r.switched THEN 0 ELSE elapsed
           /\ ss_hist' = IF due THEN Append(ss_hist, r.ret) ELSE ss_hist
           /\ ss_mode' = IF due THEN NextMode(ss_mode, should_loop) ELSE ss_mode
           /\ ss_sets' = IF r.set_completed THEN ss_sets + 1 ELSE ss_sets
    /\ last_op' = "update"
    /\ UNCHANGED <<disk, image_viewer, current_tags, tags_modified, config,
                   slideshow_dir, status_message, panicked, tags_source, baseline_tags,
                   codecVars>>

NextSlideshow ==
    \/ \E images \in Snapshots : SlideshowStart(images)
    \/ SlideshowStop
    \/ \E should_loop \in BOOLEAN : SlideshowUpdate(should_loop)
    \/ Tick

SpecSlideshow == Init /\ [][NextSlideshow]_vars

\* A slideshow that does not loop and is not stopped by the user.  While the
\* slideshow runs every frame requests the next one (app.rs, lines 751-753),
\* so update keeps being called and the clock keeps running.
NextNoLoop ==
    \/ \E images \in Snapshots : SlideshowStart(images)
    \/ SlideshowUpdate(FALSE)
    \/ Tick

SpecNoLoop ==
    /\ Init
    /\ [][NextNoLoop]_vars
    /\ WF_vars(SlideshowUpdate(FALSE))
    /\ WF_vars(Tick)

---------------------------------------------------------------------------
(* The codec on its own: save_tags then load_tags of one path.             *)

\* The longest tag list the round trip is tried on.
MaxCodecTags == 2

\* Tags as add_tag admits them (non-empty, trimmed); ';' is one of them to
\* show what the round trip excludes.
CodecTagPool ==
    { <<"a">>, <<"b", " ", "c">>, <<"W2">>,
      <<"A","S","C","I","I">>, <<"A","S","C","I","I","a","r","t">>,
      <<"U","N","I","C","O","D","E","s">>, <<"a", ";", "b">> }

CodecTagLists == UNION {[1..n -> CodecTagPool] : n \in 0..MaxCodecTags}

InitCodec ==
    /\ disk = InitDisk
    /\ image_viewer = ImageViewer_default
    /\ current_tags = <<>>
    /\ tags_modified = FALSE
    /\ config = [auto_save |-> FALSE, slideshow_loop |-> TRUE]
    /\ slideshow = Slideshow_default
    /\ elapsed = 0
    /\ slideshow_dir = None
    /\ status_message = ""
    /\ panicked = FALSE
    /\ last_op = "init"
    /\ tags_source = None
    /\ baseline_tags = <<>>
    /\ ss_hist = <<>>
    /\ ss_mode = "none"
    /\ ss_sets = 0
    /\ cd_pc = "idle"
    /\ cd_path \in AllPaths
    /\ cd_tags \in CodecTagLists
    /\ cd_out = [panic |-> FALSE, tags |-> <<>>]
    /\ cd_prefix = <<>>
    /\ cd_payload = <<>>
    /\ tg_orig = <<>>
    /\ tg_tags = <<>>
    /\ tg_tag = <<"a">>
    /\ tg_n = 0

sessionVars == <<image_viewer, current_tags, tags_modified, config, slideshow, elapsed,
                 slideshow_dir, status_message, panicked, last_op, tags_source,
                 baseline_tags, histVars>>

\* save_tags(cd_path, cd_tags)
CodecSave ==
    /\ cd_pc \in {"idle", "written"}
    /\ \E io_ok \in BOOLEAN :
         LET r == save_tags(disk, cd_path, cd_tags, io_ok)
         IN  /\ disk' = r.disk
             /\ cd_pc' = IF r.ok THEN "saved" ELSE "failed"
    /\ UNCHANGED <<cd_path, cd_tags, cd_out, cd_prefix, cd_payload, tagopVars,
                   sessionVars>>

\* load_tags(cd_path)
CodecLoad ==
    /\ cd_pc \in {"saved", "written"}
    /\ cd_out' = load_tags(disk, cd_path)
    /\ cd_pc' = IF cd_pc = "saved" THEN "loaded" ELSE "read"
    /\ UNCHANGED <<disk, cd_path, cd_tags, cd_prefix, cd_payload, tagopVars,
                   sessionVars>>

NextCodec == CodecSave \/ CodecLoad

SpecCodec == InitCodec /\ [][NextCodec]_vars

---------------------------------------------------------------------------
(* Reading what another tool wrote: a file's comment field is set to a     *)
(* prefix and a payload, then load_tags or save_tags is called on it.      *)

\* The session and the codec at rest.
AtRest ==
    /\ disk = InitDisk
    /\ image_viewer = ImageViewer_default
    /\ current_tags = <<>>
    /\ tags_modified = FALSE
    /\ config = [auto_save |-> FALSE, slideshow_loop |-> TRUE]
    /\ slideshow = Slideshow_default
    /\ elapsed = 0
    /\ slideshow_dir = None
    /\ status_message = ""
    /\ panicked = FALSE
    /\ last_op = "init"
    /\ tags_source = None
    /\ baseline_tags = <<>>
    /\ ss_hist = <<>>
    /\ ss_mode = "none"
    /\ ss_sets = 0
    /\ cd_pc = "idle"
    /\ cd_out = [panic |-> FALSE, tags |-> <<>>]

\* The most chunks a payload is made of.
MaxChunks == 3

\* What payloads are made of.
Chunks ==
    { <<"a">>, <<";">>, <<" ">>, <<"NUL">>, <<"W2">>, <<"BAD">>,
      <<"A","S","C","I","I">>, <<"U","N","I","C","O","D","E">> }

RECURSIVE Concat(_)
Concat(q) == IF q = <<>> THEN <<>> ELSE Head(q) \o Concat(Tail(q))

Payloads == {Concat(q) : q \in UNION {[1..n -> Chunks] : n \in 0..MaxChunks}}

\* The 8-byte character-code headers of the Exif UserComment field.
LegacyPrefixes ==
    { <<"A","S","C","I","I","NUL","NUL","NUL">>,
      <<"U","N","I","C","O","D","E","NUL">> }

InitDecode ==
    /\ AtRest
    /\ cd_path \in DiskPaths
    /\ cd_tags = <<<<"a">>>>
    /\ cd_prefix \in LegacyPrefixes \cup {<<>>}
    /\ cd_payload \in Payloads
    /\ tg_orig = <<>>
    /\ tg_tags = <<>>
    /\ tg_tag = <<"a">>
    /\ tg_n = 0

\* Another tool writes the comment field of the file at cd_path.
ForeignWrite ==
    /\ cd_pc = "idle"
    /\ exists(disk, cd_path)
    /\ disk' = [disk EXCEPT ![cd_path].comment = Some(cd_prefix \o cd_payload)]
    /\ cd_pc' = "written"
    /\ UNCHANGED <<cd_path, cd_tags, cd_out, cd_prefix, cd_payload, tagopVars,
                   sessionVars>>

NextDecode == ForeignWrite \/ CodecSave \/ CodecLoad

SpecDecode == InitDecode /\ [][NextDecode]_vars

---------------------------------------------------------------------------
(* The tag list operations on their own: toggle_tag applied repeatedly to a *)
(* list as load_tags can return it (duplicates included).                  *)

\* The longest tag list the operations are tried on.
MaxTagList == 3
\* The most calls of toggle_tag in a row.
MaxToggles == 2

TagPool == {<<"a">>, <<"b">>, <<"c">>}
TagLists == UNION {[1..n -> TagPool] : n \in 0..MaxTagList}
\* The tag a hotkey is bound to, as written in the configuration.
ToggleArgs == {<<"a">>, <<" ", "b">>}

InitTagOps ==
    /\ AtRest
    /\ cd_path = P_a
    /\ cd_tags = <<>>
    /\ cd_prefix = <<>>
    /\ cd_payload = <<>>
    /\ tg_orig \in TagLists
    /\ tg_tags = tg_orig
    /\ tg_tag \in ToggleArgs
    /\ tg_n = 0

\* toggle_tag(&mut tags, tag)
TagToggle ==
    /\ tg_n < MaxToggles
    /\ tg_tags' = toggle_tag(tg_tags, tg_tag)
    /\ tg_n' = tg_n + 1
    /\ UNCHANGED <<disk, tg_orig, tg_tag, cd_pc, cd_path, cd_tags, cd_out, cd_prefix,
                   cd_payload, sessionVars>>

NextTagOps == TagToggle

SpecTagOps == InitTagOps /\ [][NextTagOps]_vars

---------------------------------------------------------------------------
(* Properties                                                              *)

\* A tag as the round trip admits it: non-empty, trimmed, free of ';'.
ValidTag(t) == t # <<>> /\ trim(t) = t /\ ~Contains(t, ";")

\* C1: for tags that are non-empty, trimmed and free of ';', and a path of a
\* supported format, save_tags followed by load_tags returns the same ordered
\* tags (tags beginning with ASCII or UNICODE included).
C1_RoundTrip ==
    (/\ cd_pc = "loaded"
     /\ is_supported_format(cd_path)
     /\ \A i \in 1..Len(cd_tags) : ValidTag(cd_tags[i]))
    => (~cd_out.panic /\ cd_out.tags = cd_tags)

\* C2: the tag list in memory is the one loaded from the image the viewer
\* reports as current (with the edits made since), also after an open_image
\* that ImageViewer::open rejects.
C2_TagsBelongToCurrent ==
    image_viewer.current_image # None => tags_source = image_viewer.current_image

\* C3: a non-empty sibling list has a valid current index, and with an empty
\* sibling list there is no current image.
C3_ImageSetInvariant ==
    /\ image_viewer.images_in_dir # <<>>
          => image_viewer.current_index < Len(image_viewer.images_in_dir)
    /\ image_viewer.images_in_dir = <<>> => image_viewer.current_image = None

\* C4: after a delete that succeeded, an image that remains is current, the
\* tag list equals load_tags of it and the dirty flag is false; with no image
\* left the tag list is empty and there is no current image.
C4_DeleteReloadsTags ==
    last_op = "delete_ok" =>
        IF image_viewer.images_in_dir # <<>>
        THEN /\ image_viewer.current_image # None
             /\ current_tags = load_tags(disk, image_viewer.current_image[1]).tags
             /\ ~tags_modified
        ELSE /\ current_tags = <<>>
             /\ image_viewer.current_image = None

\* C5: the dirty flag is true exactly when the tag list differs from what it
\* was at the last load, open or successful save.
C5_DirtyIffDiffers == tags_modified <=> (current_tags # baseline_tags)

\* C6: after start with n >= 1 images, the calls of update with the interval
\* elapsed and loop = false return images[1], ..., images[n-1], then nothing;
\* from the n-th call on the slideshow is not running and completed_once is
\* set.
C6_NoLoopCompletion ==
    LET n == Len(slideshow.images)
        k == Len(ss_hist)
    IN  (n >= 1 /\ ss_mode \in {"none", "noloop"}) =>
            /\ \A j \in 1..k :
                 ss_hist[j] = IF j <= n - 1 THEN Some(slideshow.images[j + 1]) ELSE None
            /\ k < n => slideshow.is_running
            /\ k >= n => (~slideshow.is_running /\ slideshow.completed_once)

\* C6 witness: a pass over three images has completed and update was called
\* once more.
C6_Witness ==
    /\ ss_mode = "noloop"
    /\ Len(slideshow.images) = 3
    /\ Len(ss_hist) = 4
    /\ ~slideshow.is_running

\* C7: after start with n >= 1 images, the k-th call of update with the
\* interval elapsed and loop = true returns images[k mod n]; the slideshow
\* stays running, and completed_once is set on the calls that wrap, once per
\* pass.
C7_LoopForever ==
    LET n == Len(slideshow.images)
        k == Len(ss_hist)
    IN  (n >= 1 /\ ss_mode \in {"none", "loop"}) =>
            /\ \A j \in 1..k : ss_hist[j] = Some(slideshow.images[(j % n) + 1])
            /\ slideshow.is_running
            /\ ss_sets = k \div n
            /\ slideshow.completed_once <=> k >= n

\* C7 witness: two full passes over three images.
C7_Witness ==
    /\ ss_mode = "loop"
    /\ Len(slideshow.images) = 3
    /\ Len(ss_hist) = 6
    /\ ss_sets = 2

RECURSIVE NextTimes(_, _)
NextTimes(v, k) == IF k = 0 THEN v ELSE NextTimes(ImageViewer_next(v), k - 1)

RECURSIVE PrevTimes(_, _)
PrevTimes(v, k) == IF k = 0 THEN v ELSE PrevTimes(ImageViewer_prev(v), k - 1)

C10_TrashFailureChangesNothing ==
    [][last_op' = "delete_err" =>
          /\ UNCHANGED <<disk, image_viewer, current_tags, tags_modified, config,
                         slideshow, slideshow_dir>>
          /\ status_message' = "Error deleting file"]_vars

\* C10 witness: the delete failed on an image with unsaved tags.
C10_Witness ==
    /\ last_op = "delete_err"
    /\ status_message = "Error deleting file"
    /\ image_viewer.current_image # None
    /\ current_tags # <<>>
    /\ tags_modified

\* C11: a save that succeeds clears the dirty flag and reports it; a save that
\* fails reports the error, leaves the dirty flag as it was and writes
\* nothing; neither changes the tag list or the viewer.
C11_SaveErrorHandling ==
    [][/\ last_op' = "save_ok" =>
             /\ ~tags_modified'
             /\ status_message' = "Tags saved"
             /\ disk'[image_viewer.current_image[1]].comment
                   = Some(join(current_tags, ";"))
       /\ last_op' = "save_err" =>
             /\ tags_modified' = tags_modified
             /\ status_message' = "Error saving tags"
             /\ disk' = disk
       /\ last_op' \in {"save_ok", "save_err"} =>
             /\ current_tags' = current_tags
             /\ image_viewer' = image_viewer]_vars

\* C11 witness: a save of a modified, non-empty tag list has failed and the
\* flag is still set.
C11_Witness ==
    /\ last_op = "save_err"
    /\ status_message = "Error saving tags"
    /\ tags_modified
    /\ current_tags # <<>>
    /\ image_viewer.current_image # None
    /\ is_supported_format(image_viewer.current_image[1])

\* A step of navigate_next / navigate_prev saves first and then moves: with the
\* dirty flag set, auto-save on and an image current, the tag list is written
\* to that image (or the failure is reported and nothing is written); nothing
\* else is ever written; the viewer then moves by one.
NavigateSavesThenMoves ==
    LET cur == image_viewer.current_image
        must_save == tags_modified /\ config.auto_save /\ cur # None
        written == [disk EXCEPT ![cur[1]].comment = Some(join(current_tags, ";"))]
        can_write == is_supported_format(cur[1]) /\ exists(disk, cur[1])
    IN  /\ ~must_save => disk' = disk
        /\ must_save =>
             /\ status_message' \in {"Tags saved", "Error saving tags"}
             /\ status_message' = "Tags saved" => (can_write /\ disk' = written)
             /\ status_message' = "Error saving tags" => disk' = disk
        /\ image_viewer' = IF last_op' = "next" THEN ImageViewer_next(image_viewer)
                           ELSE ImageViewer_prev(image_viewer)

\* C12 (as stated): navigate saves first (dirty and auto-save), then moves,
\* and when it returns the tag list is load_tags of the new current image and
\* the dirty flag is false.
C12_NavigateAlwaysClean ==
    [][last_op' \in {"next", "prev"} =>
         /\ NavigateSavesThenMoves
         /\ ~tags_modified'
         /\ image_viewer'.current_image # None =>
              current_tags' = load_tags(disk', image_viewer'.current_image[1]).tags]_vars

\* C12 (amended): navigate saves first (dirty and auto-save), then moves; with
\* an image current afterwards the tag list is load_tags of it, read after the
\* write, and the dirty flag is false; with no image current the tag list and
\* the dirty flag stay as they were.
C12_NavigateAutoSaveOrder ==
    [][last_op' \in {"next", "prev"} =>
         /\ NavigateSavesThenMoves
         /\ IF image_viewer'.current_image # None
            THEN /\ current_tags' = load_tags(disk', image_viewer'.current_image[1]).tags
                 /\ ~tags_modified'
            ELSE /\ current_tags' = current_tags
                 /\ tags_modified' = tags_modified]_vars

\* C12 witness: navigate_next has left a.png with the tag a unsaved and
\* auto-save on: a.png now carries a, and b.JPG is current with its own tags.
C12_Witness ==
    /\ last_op = "next"
    /\ config.auto_save
    /\ status_message = "Tags saved"
    /\ disk[P_a].comment = Some(<<"a">>)
    /\ image_viewer.current_image = Some(P_b)
    /\ current_tags = <<<<"b">>>>
    /\ ~tags_modified

\* C13: toggle_tag called twice in succession with the same tag leaves the
\* tag list exactly as it was before (same tags, same order), also when the
\* tag is present at a position other than the last or more than once.
C13_ToggleTwiceIdentity == tg_n = 2 => tg_tags = tg_orig


\* C14: an add whose trimmed tag is already in the list leaves the list as it
\* is, appends no duplicate, and leaves the dirty flag at the value it had.
C14_AddExistingKeepsDirty ==
    [][\A input \in AddInputs :
          (AddTag(input) /\ Contains(current_tags, trim(input))) =>
              /\ current_tags' = current_tags
              /\ tags_modified' = tags_modified]_vars

\* C15: load_tags returns a tag list and never panics, whatever the file and
\* the bytes of its comment field are.
C15_LoadNeverPanics == cd_pc \in {"read", "loaded"} => ~cd_out.panic

\* C17: a comment holding an 8-character legacy prefix followed by a payload
\* that does not itself begin with ASCII or UNICODE decodes to the tag list
\* the payload alone decodes to.
C17_LegacyPrefixTolerated ==
    (/\ cd_pc = "read"
     /\ is_supported_format(cd_path)
     /\ cd_prefix \in LegacyPrefixes
     /\ ~starts_with(cd_payload, <<"A","S","C","I","I">>)
     /\ ~starts_with(cd_payload, <<"U","N","I","C","O","D","E">>))
    => /\ ~cd_out.panic
       /\ ~decode_comment(cd_payload).panic
       /\ cd_out.tags = decode_comment(cd_payload).tags

\* C16: the tag list in memory never holds two equal tags, whether it came
\* from load_tags or from add, remove and toggle.
C16_TagsUnique ==
    \A i, j \in 1..Len(current_tags) : i # j => current_tags[i] # current_tags[j]

\* C18: on a path whose extension is not png, jpg, jpeg or webp (in any
\* letter case), load_tags returns the empty list, without error and whatever
\* the file holds, and save_tags fails and leaves the file system unchanged.
C18_UnsupportedFormats ==
    [][~is_supported_format(cd_path) =>
          /\ cd_pc' \in {"read", "loaded"} =>
                cd_out' = [panic |-> FALSE, tags |-> <<>>]
          /\ cd_pc' \in {"saved", "failed"} =>
                (cd_pc' = "failed" /\ disk' = disk)]_vars

\* C18 witness: load_tags has returned the empty list for c.bmp although its
\* comment field holds bytes that load_tags could not decode.
C18_Witness ==
    /\ cd_pc = "read"
    /\ cd_path = P_c
    /\ disk[P_c].comment = Some(<<"A", "S", "C", "I", "I">>)
    /\ cd_out = [panic |-> FALSE, tags |-> <<>>]

\* C19: when the user points the application at a directory, the sibling
\* list of the viewer becomes the sorted viewable files of that directory.
C19_FolderRebuildsImageSet ==
    last_op = "folder" =>
        image_viewer.images_in_dir
            = load_directory_images(disk, slideshow_dir[1])

\* C20: once completed_once is set, update and stop leave it set; only start
\* clears it.
C20_CompletedOnceSticky ==
    [][(slideshow.completed_once /\ ~slideshow'.completed_once)
          => last_op' = "start"]_vars

\* C20 witness: a pass completed, the slideshow was stopped, update was called
\* again with the interval elapsed, and completed_once is still set.
C20_Witness ==
    /\ last_op = "update"
    /\ ss_mode = "stopped"
    /\ Len(ss_hist) > Len(slideshow.images)
    /\ ~slideshow.is_running
    /\ slideshow.completed_once

\* The cases in which update has nothing to do: the slideshow is not running,
\* its snapshot is empty, or the interval has not elapsed since last_switch.
UpdateIdleCase ==
    \/ ~slideshow.is_running
    \/ slideshow.images = <<>>
    \/ elapsed < SlideshowInterval

\* C21: update called when the slideshow is not running, when its snapshot is
\* empty, or before the interval has elapsed returns None and leaves the
\* snapshot, the index, both flags and last_switch as they were.
C21_UpdateNoOp ==
    [][\A should_loop \in BOOLEAN :
          (UpdateIdleCase /\ SlideshowUpdate(should_loop))
              => /\ slideshow' = slideshow
                 /\ elapsed' = elapsed
                 /\ Slideshow_update(slideshow, elapsed, SlideshowInterval,
                                     should_loop).ret = None]_vars

\* C21 witness: a running slideshow was polled before the interval had elapsed
\* and is still on its first image.
C21_Witness ==
    /\ last_op = "update"
    /\ slideshow.is_running
    /\ Len(slideshow.images) > 1
    /\ slideshow.current_index = 0
    /\ ss_hist = <<>>
    /\ elapsed < SlideshowInterval

\* C22: without loop, a slideshow that is running after a tick or an update
\* reaches is_running = FALSE with completed_once = TRUE, unless start is
\* called again first; a slideshow that is not running starts running only
\* by start.
C22_NoLoopTerminates ==
    /\ [](slideshow.is_running /\ last_op # "start"
            => <>(\/ ~slideshow.is_running /\ slideshow.completed_once
                  \/ last_op = "start"))
    /\ [][(~slideshow.is_running /\ slideshow'.is_running)
            => last_op' = "start"]_vars

\* C22 witness: a slideshow of several images ran through without loop, one
\* advance per image, and is no longer running.
C22_Witness ==
    /\ last_op = "update"
    /\ ss_mode = "noloop"
    /\ Len(slideshow.images) > 1
    /\ Len(ss_hist) = Len(slideshow.images)
    /\ ~slideshow.is_running
    /\ slideshow.completed_once

\* C23: no tag returned by load_tags contains a NUL character.
C23_NoNulInTags ==
    cd_pc \in {"read", "loaded"} =>
        \A i \in 1..Len(cd_out.tags) : ~Contains(cd_out.tags[i], "NUL")

\* C24: whenever an image is current and the sibling list is not empty, the
\* current image is the element of the list at the current index.
C24_CurrentIsIndexed ==
    (image_viewer.current_image # None /\ image_viewer.images_in_dir # <<>>)
        => image_viewer.current_image
              = get(image_viewer.images_in_dir, image_viewer.current_index)

\* C25: whenever the snapshot of the slideshow is not empty, current_index is
\* an index into it and current_image() returns an image of the snapshot.
C25_SlideshowIndexValid ==
    slideshow.images # <<>> =>
        /\ slideshow.current_index < Len(slideshow.images)
        /\ Slideshow_current_image(slideshow) # None
        /\ Contains(slideshow.images, Slideshow_current_image(slideshow)[1])

\* update_slideshow reported the end of the slideshow in this step: it set
\* the status and consumed completed_once.
SlideshowReported ==
    /\ last_op' = "update"
    /\ status_message' = "Slideshow completed"
    /\ ~slideshow'.is_running
    /\ ~slideshow'.completed_once
    /\ slideshow.is_running \/ slideshow.completed_once

\* C26: "Slideshow completed" is reported only in the frame in which a pass
\* without loop runs to its end; stopping a looping slideshow that has wrapped
\* around is never reported as a completion.
C26_ReportedOnlyOnCompletion ==
    [][SlideshowReported
          => /\ slideshow.is_running
             /\ ~config.slideshow_loop
             /\ slideshow'.current_index = Len(slideshow.images)]_vars

====
